---- MODULE Spec2Model ----
(***************************************************************************)
(* A model of model_lib/fixed_c45.py: the C45Classifier object, its tree   *)
(* nodes (_DecisionNode, _LeafNode), the recursive tree build, and the     *)
(* queries on a trained tree (predict, rules, summary, get_depth).         *)
(*                                                                         *)
(* Representation.                                                         *)
(*  - Python's None is the integer None (-1) where the value is otherwise  *)
(*    an integer (a label, max_depth, an attribute index), and the record  *)
(*    NoneObj where it is otherwise an object (tree, attributes, data).    *)
(*  - A data frame is [columns, rows]: the column names, the label's       *)
(*    last, and the rows as sequences whose last field is the label.       *)
(*  - A node is [kind |-> "Leaf", label, weight] or                        *)
(*    [kind |-> "Decision", attribute, children], children a function      *)
(*    from the edge values to nodes (the dict self.children).  Attribute   *)
(*    values are small naturals, so a Python set or dict of them is        *)
(*    iterated in ascending order.                                         *)
(*  - Indices are 0-based as in the source; s[i + 1] reads index i.        *)
(*  - A float of the gain computation is kept as an integer numerator:     *)
(*    log2 is tabulated in 1/1000 bit and every quantity of one selection  *)
(*    shares the denominator 1000 * sum(weights); a gain ratio is a        *)
(*    fraction <<num, den>>.                                               *)
(*  - A string that is sliced (a rule) is a sequence of one-character      *)
(*    strings; names, values, labels and weights are one token each.       *)
(*  - A call's outcome is [kind |-> "Return", value] or                    *)
(*    [kind |-> "Raise", error].                                           *)
(***************************************************************************)
EXTENDS Integers, Sequences, FiniteSets, TLC

VARIABLES
    tree,               \* self.tree
    attributes,         \* self.attributes
    data,               \* self.data
    weight,             \* self.weight
    max_depth,          \* self.max_depth
    deep,               \* self.deep
    min_samples_split,  \* self.min_samples_split
    min_samples_leaf,   \* self.min_samples_leaf
    ret,                \* the last call on the object: its name, argument and outcome
    calls,              \* the number of calls made on the object
    args,               \* the arguments of the fit that is running step by step
    stack               \* the activations of __build_decision_tree of that fit

vars == <<tree, attributes, data, weight, max_depth, deep, min_samples_split,
          min_samples_leaf, ret, calls, args, stack>>

object == <<tree, attributes, data, weight, max_depth, deep, min_samples_split,
            min_samples_leaf>>

---------------------------------------------------------------------------
(* Bounds of the model *)

MaxRecords == 3      \* rows of a training set built step by step
MaxFitRows == 2      \* rows of a training set in a sequence of calls
MaxBatch == 2        \* instances of a predict call
MaxCalls == 3        \* calls on one object
MaxDepthParam == 1   \* the largest max_depth configured

---------------------------------------------------------------------------
(* Values *)

None == -1
NoneObj == [kind |-> "None"]

Return(v) == [kind |-> "Return", value |-> v]
Raise(e) == [kind |-> "Raise", error |-> e]
\* return of a dict, and return self
ReturnDict(d) == [kind |-> "Return", items |-> d]
ReturnSelf == [kind |-> "Return", object |-> "self"]

UntrainedError == "Decision tree has not been trained yet!"
ArityError == "Number of variables in data and attributes do not match!"

Leaf(label, w) == [kind |-> "Leaf", label |-> label, weight |-> w]
Decision(attribute, children) ==
    [kind |-> "Decision", attribute |-> attribute, children |-> children]

Max(S) == CHOOSE x \in S : \A y \in S : y <= x

RECURSIVE SumSeq(_)
SumSeq(s) == IF s = <<>> THEN 0 ELSE s[1] + SumSeq(Tail(s))

\* the elements of a set of naturals in ascending order
RECURSIVE Ascending(_)
Ascending(S) ==
    IF S = {} THEN <<>>
    ELSE LET m == CHOOSE x \in S : \A y \in S : x <= y
         IN  <<m>> \o Ascending(S \ {m})

\* list.index(x): the first 0-based position of x, None when x is absent
IndexOf(s, x) ==
    IF \E i \in 1..Len(s) : s[i] = x
    THEN (CHOOSE i \in 1..Len(s) : s[i] = x /\ \A j \in 1..(i - 1) : s[j] # x) - 1
    ELSE None

\* s[:i] + s[i + 1:]
Without(s, i) == SubSeq(s, 1, i) \o SubSeq(s, i + 2, Len(s))

LabelOf(record) == record[Len(record)]

\* 1000 * log2(n) for n in 1..16, additive over the prime factors of n
Log2Table == <<0, 1000, 1585, 2000, 2322, 2585, 2807, 3000,
               3170, 3322, 3459, 3585, 3700, 3807, 3907, 4000>>

---------------------------------------------------------------------------
(* The impurity engine and the attribute selector *)

\* class_counts of __calculate_entropy and __majority_class: the summed weight of a label
ClassCount(recs, weights, label) ==
    SumSeq([i \in 1..Len(recs) |-> IF LabelOf(recs[i]) = label THEN weights[i] ELSE 0])

ClassLabels(recs) == {LabelOf(recs[i]) : i \in 1..Len(recs)}

\* count / total_weight divides by zero: some label is counted and the weights sum to 0
EntropyRaises(recs, weights) == recs # <<>> /\ SumSeq(weights) = 0

\* __calculate_entropy, as the numerator of entropy over 1000 * sum(weights):
\* - sum of (count / total) * log2(count / total)
calculate_entropy(recs, weights) ==
    LET total_weight == SumSeq(weights)
        EntropyTerm(label) ==
            LET count == ClassCount(recs, weights, label)
            IN  count * (Log2Table[total_weight] - Log2Table[count])
        labels == Ascending(ClassLabels(recs))
    IN  SumSeq([k \in 1..Len(labels) |-> EntropyTerm(labels[k])])

\* __split_data: the records whose field attribute_index is attribute_value, that field
\* removed, and their weights
split_data(recs, attribute_index, attribute_value, weights) ==
    LET keep == SelectSeq([i \in 1..Len(recs) |-> i],
                          LAMBDA i : recs[i][attribute_index + 1] = attribute_value)
    IN  [data    |-> [k \in 1..Len(keep) |-> Without(recs[keep[k]], attribute_index)],
         weights |-> [k \in 1..Len(keep) |-> weights[keep[k]]]]

AttributeValues(recs, attribute_index) ==
    {recs[i][attribute_index + 1] : i \in 1..Len(recs)}

\* one turn of the loop of __select_best_attribute_c50 over attribute_index; st carries
\* best_attribute, best_gain_ratio (a fraction) and split_info, which the source never
\* resets between attributes
SelectStep(recs, weights, total_entropy, attribute_index, st) ==
    LET values == Ascending(AttributeValues(recs, attribute_index))
        total == SumSeq(weights)
        Sub(k) == split_data(recs, attribute_index, values[k], weights)
        attribute_entropy ==
            SumSeq([k \in 1..Len(values) |-> calculate_entropy(Sub(k).data, Sub(k).weights)])
        split_info ==
            st.split_info
            + SumSeq([k \in 1..Len(values) |->
                         SumSeq(Sub(k).weights)
                         * (Log2Table[total] - Log2Table[SumSeq(Sub(k).weights)])])
        gain == total_entropy - attribute_entropy
        gain_ratio == IF split_info # 0 THEN <<gain, split_info>> ELSE <<0, 1>>
        better == gain_ratio[1] * st.best_gain_ratio[2]
                      > st.best_gain_ratio[1] * gain_ratio[2]
    IN  [best_attribute  |-> IF better THEN attribute_index ELSE st.best_attribute,
         best_gain_ratio |-> IF better THEN gain_ratio ELSE st.best_gain_ratio,
         split_info      |-> split_info]

RECURSIVE SelectLoop(_, _, _, _, _, _)
SelectLoop(recs, weights, total_entropy, attribute_index, n, st) ==
    IF attribute_index = n THEN st
    ELSE SelectLoop(recs, weights, total_entropy, attribute_index + 1, n,
                    SelectStep(recs, weights, total_entropy, attribute_index, st))

\* __select_best_attribute_c50: the index of the attribute of greatest gain ratio, None
\* when no gain ratio is positive; defined where the entropy does not raise
select_best_attribute_c50(recs, attrs, weights) ==
    SelectLoop(recs, weights, calculate_entropy(recs, weights), 0, Len(attrs),
               [best_attribute |-> None, best_gain_ratio |-> <<0, 1>>,
                split_info |-> 0]).best_attribute

\* the labels of recs in the order of their first occurrence (the dict's key order)
RECURSIVE FirstSeen(_)
FirstSeen(recs) ==
    IF recs = <<>> THEN <<>>
    ELSE LET before == FirstSeen(SubSeq(recs, 1, Len(recs) - 1))
             label == LabelOf(recs[Len(recs)])
         IN  IF \E k \in 1..Len(before) : before[k] = label
             THEN before ELSE Append(before, label)

RECURSIVE MajorityLoop(_, _, _, _, _)
MajorityLoop(recs, weights, labels, majority, max_count) ==
    IF labels = <<>> THEN majority
    ELSE LET count == ClassCount(recs, weights, Head(labels))
         IN  IF count > max_count
             THEN MajorityLoop(recs, weights, Tail(labels), Head(labels), count)
             ELSE MajorityLoop(recs, weights, Tail(labels), majority, max_count)

\* __majority_class: the first label of strictly greatest summed weight; None when no
\* label has a positive summed weight
majority_class(recs, weights) == MajorityLoop(recs, weights, FirstSeen(recs), None, 0)

---------------------------------------------------------------------------
(* The tree builder *)

\* the fields of self that __build_decision_tree reads
Params(md, mss, msl) ==
    [max_depth |-> md, min_samples_split |-> mss, min_samples_leaf |-> msl]

\* the stopping rules of __build_decision_tree in the order of the source, before the
\* attribute selection: the Leaf returned, or NoneObj when none applies
StoppingLeaf(recs, attrs, weights, level, params) ==
    IF Cardinality(ClassLabels(recs)) = 1
        THEN Leaf(LabelOf(recs[1]), SumSeq(weights))
    ELSE IF Len(attrs) = 1
        THEN Leaf(majority_class(recs, weights), SumSeq(weights))
    ELSE IF level = params.max_depth
        THEN Leaf(majority_class(recs, weights), SumSeq(weights))
    ELSE IF Len(recs) < params.min_samples_leaf
        THEN Leaf(majority_class(recs, weights), SumSeq(weights))
    ELSE IF Len(recs) < params.min_samples_split
        THEN Leaf(majority_class(recs, weights), SumSeq(weights))
    ELSE NoneObj

\* ChildAttributes with the chosen attribute left in the list
ChildAttributesKept(attrs, best_attribute) == attrs

\* the attribute list handed to the recursive calls: attributes[:best] + attributes[best + 1:]
ChildAttributes(attrs, best_attribute) == Without(attrs, best_attribute)

\* __build_decision_tree, with self.deep threaded through as dp: the node built (or the
\* ZeroDivisionError of the entropy) and the value of self.deep afterwards
RECURSIVE build_decision_tree(_, _, _, _, _, _)
build_decision_tree(recs, attrs, weights, level, params, dp) ==
    LET stop == StoppingLeaf(recs, attrs, weights, level, params)
    IN  IF stop # NoneObj THEN [node |-> stop, deep |-> dp]
        ELSE IF EntropyRaises(recs, weights)
            THEN [node |-> Raise("ZeroDivisionError"), deep |-> dp]
        ELSE
        LET best_attribute == select_best_attribute_c50(recs, attrs, weights)
        IN  IF best_attribute = None
            THEN [node |-> Leaf(majority_class(recs, weights), SumSeq(weights)),
                  deep |-> dp]
            ELSE
            LET attribute_values == AttributeValues(recs, best_attribute)
                new_depth == level + 1
                Child(value) ==
                    LET sub == split_data(recs, best_attribute, value, weights)
                    IN  IF Len(sub.data) = 0
                        THEN [node |-> Leaf(majority_class(recs, weights),
                                            SumSeq(sub.weights)),
                              deep |-> Max({dp, new_depth})]
                        ELSE build_decision_tree(sub.data,
                                                 ChildAttributes(attrs, best_attribute),
                                                 sub.weights, new_depth, params,
                                                 Max({dp, new_depth}))
                built == [value \in attribute_values |-> Child(value)]
                deepest == Max({built[value].deep : value \in attribute_values})
            IN  IF \E value \in attribute_values : built[value].node.kind = "Raise"
                THEN [node |-> Raise("ZeroDivisionError"), deep |-> deepest]
                ELSE [node |-> Decision(attrs[best_attribute + 1],
                                        [value \in attribute_values |-> built[value].node]),
                      deep |-> deepest]

\* data.columns.tolist()[:-1]
FeatureColumns(frame) == SubSeq(frame.columns, 1, Len(frame.columns) - 1)

\* __make_tree as __train calls it: the build over all rows, every weight the same
make_tree(frame, w, params, dp) ==
    build_decision_tree(frame.rows, FeatureColumns(frame),
                        [i \in 1..Len(frame.rows) |-> w], 0, params, dp)

---------------------------------------------------------------------------
(* The tree's queries *)

\* _DecisionNode.depth
RECURSIVE depth(_)
depth(node) ==
    IF DOMAIN node.children = {} THEN 1
    ELSE LET children == node.children
             deepest == Max({0} \cup {depth(children[v]) :
                                v \in {x \in DOMAIN children : children[x].kind = "Decision"}})
         IN  deepest + 1

\* _DecisionNode.count_leaves
RECURSIVE count_leaves(_)
count_leaves(node) ==
    IF DOMAIN node.children = {} THEN 1
    ELSE LET children == node.children
             values == Ascending(DOMAIN children)
         IN  SumSeq([k \in 1..Len(values) |->
                        IF children[values[k]].kind = "Decision"
                        THEN count_leaves(children[values[k]]) ELSE 1])

\* a call of a _DecisionNode method on self.tree: _LeafNode defines neither depth nor
\* count_leaves, and None has no attributes at all
DepthCall(node) ==
    IF node.kind = "Decision" THEN Return(depth(node)) ELSE Raise("AttributeError")

CountLeavesCall(node) ==
    IF node.kind = "Decision" THEN Return(count_leaves(node)) ELSE Raise("AttributeError")

---------------------------------------------------------------------------
(* The classifier *)

\* the labels of the direct _LeafNode children of a node
DirectLeafLabels(node) ==
    {node.children[v].label : v \in {x \in DOMAIN node.children :
                                        node.children[x].kind = "Leaf"}}

\* max(set(class_labels)): None is not ordered against a label
MaxLabel(labels) ==
    IF None \in labels /\ Cardinality(labels) > 1
    THEN Raise("TypeError") ELSE Return(Max(labels))

\* __classify below the root test, with the branch that ended it: "leaf" (a Leaf was
\* reached along matching edges), "direct_leaves" (no edge, the maximum label of the
\* direct Leaf children), "global_majority" (no edge and no direct Leaf child) or
\* "raise"; attrs is self.attributes and frame is self.data
RECURSIVE ClassifyFrom(_, _, _, _)
ClassifyFrom(node, attrs, frame, instance) ==
    IF node.kind = "Leaf" THEN [out |-> Return(node.label), via |-> "leaf"]
    ELSE
    LET attribute_index == IndexOf(attrs, node.attribute)
    IN  IF attribute_index = None
            THEN [out |-> Raise("ValueError"), via |-> "raise"]
        ELSE IF attribute_index >= Len(instance)
            THEN [out |-> Raise("IndexError"), via |-> "raise"]
        ELSE
        LET attribute_values == instance[attribute_index + 1]
        IN  IF attribute_values \in DOMAIN node.children
            THEN ClassifyFrom(node.children[attribute_values], attrs, frame, instance)
            ELSE
            LET class_labels == DirectLeafLabels(node)
            IN  IF class_labels = {}
                THEN [out |-> Return(majority_class(frame.rows,
                                        [i \in 1..Len(frame.rows) |-> 1])),
                      via |-> "global_majority"]
                ELSE [out |-> MaxLabel(class_labels),
                      via |-> IF MaxLabel(class_labels).kind = "Raise"
                              THEN "raise" ELSE "direct_leaves"]

\* __classify(None, instance) on an object whose fields are root, attrs and frame
ClassifyVia(root, attrs, frame, instance) ==
    IF root = NoneObj THEN [out |-> Raise(UntrainedError), via |-> "raise"]
    ELSE ClassifyFrom(root, attrs.items, frame, instance)

classify(root, attrs, frame, instance) == ClassifyVia(root, attrs, frame, instance).out

\* predict on a list of instances (lists, not dicts): data[0] of an empty list and
\* len(None) raise before the arity test, which reads the first instance only; the
\* list comprehension ends at the first instance whose classification raises
predict(root, attrs, frame, batch) ==
    IF batch = <<>> THEN Raise("IndexError")
    ELSE IF attrs = NoneObj THEN Raise("TypeError")
    ELSE IF Len(batch[1]) # Len(attrs.items) THEN Raise(ArityError)
    ELSE
    LET outs == [i \in 1..Len(batch) |-> classify(root, attrs, frame, batch[i])]
    IN  IF \E i \in 1..Len(batch) : outs[i].kind = "Raise"
        THEN outs[CHOOSE i \in 1..Len(batch) :
                      /\ outs[i].kind = "Raise"
                      /\ \A j \in 1..(i - 1) : outs[j].kind # "Raise"]
        ELSE Return([i \in 1..Len(batch) |-> outs[i].value])

---------------------------------------------------------------------------
(* The rule extractor *)

\* str() of a label, a weight or an attribute value
Str(x) == IF x = None THEN "None" ELSE ToString(x)

\* " AND <attribute> = <edge_label>", character by character
AndTerm(attribute, edge_label) ==
    <<" ", "A", "N", "D", " ", attribute, " ", "=", " ", Str(edge_label)>>

\* " => Class: <label>, Weight: <weight>", character by character
ClassSuffix(label, w) ==
    <<" ", "=", ">", " ", "C", "l", "a", "s", "s", ":", " ", Str(label), ",", " ",
      "W", "e", "i", "g", "h", "t", ":", " ", Str(w)>>

RECURSIVE Flatten(_)
Flatten(lists) == IF lists = <<>> THEN <<>> ELSE Head(lists) \o Flatten(Tail(lists))

\* build_rules of rules(): has_parent is the truth of parent_node; the rules appended
\* by the call, in order
RECURSIVE build_rules(_, _, _, _)
build_rules(node, has_parent, edge_label, rule) ==
    IF node.kind = "Decision" THEN
        LET rule1 == IF has_parent
                     THEN rule \o AndTerm(node.attribute, edge_label) ELSE rule
            values == Ascending(DOMAIN node.children)
        IN  Flatten([k \in 1..Len(values) |->
                        build_rules(node.children[values[k]], TRUE, values[k], rule1)])
    ELSE IF node.kind = "Leaf" THEN
        LET rule1 == IF has_parent
                     THEN rule \o ClassSuffix(node.label, node.weight) ELSE rule
        IN  <<SubSeq(rule1, 6, Len(rule1))>>
    ELSE <<>>

\* rules(): build_rules(self.tree); a tree of None matches neither isinstance
rules(root) == build_rules(root, FALSE, None, <<>>)

\* summary(): what it prints, or the first error of len(self.data),
\* len(self.attributes), self.tree.count_leaves(), self.rules() and self.tree.depth()
summary(root, attrs, frame) ==
    IF frame = NoneObj THEN Raise("TypeError")
    ELSE IF attrs = NoneObj THEN Raise("TypeError")
    ELSE IF CountLeavesCall(root).kind = "Raise" THEN CountLeavesCall(root)
    ELSE IF DepthCall(root).kind = "Raise" THEN DepthCall(root)
    ELSE Return([instances  |-> Len(frame.rows),
                 attributes |-> Len(attrs.items),
                 leaves     |-> count_leaves(root),
                 rules      |-> Len(rules(root)),
                 depth      |-> depth(root)])

---------------------------------------------------------------------------
(* The inputs *)

AttrValues == 0..1          \* the values an attribute takes in training data
Labels == 0..1
Weights == 0..1             \* the weight argument of fit
DepthParams == {None} \cup 0..MaxDepthParam

\* the records of a frame of n feature columns, the label last; the last of several
\* feature columns holds one value only
Records(n) ==
    {r \in [1..(n + 1) -> AttrValues \cup Labels] :
        /\ \A j \in 1..n : r[j] \in AttrValues
        /\ r[n + 1] \in Labels
        /\ n > 1 => r[n] = 0}

\* the rows of a frame of n feature columns: up to most records
Rows(n, most) == UNION {[1..k -> Records(n)] : k \in 1..most}

Frame(columns, rows) == [kind |-> "DataFrame", columns |-> columns, rows |-> rows]

\* pd.concat([data, label], axis=1) for the frames fitted in a sequence of calls: two
\* feature columns, under two lists of names that share one name at another position
FitFrames ==
    {Frame(columns, rows) : columns \in {<<"a", "b", "y">>, <<"b", "c", "y">>},
                            rows \in Rows(2, MaxFitRows)}

\* the instances of a batch: of two fields with trained values, of two fields with a
\* value no training set holds, and of one field
Instances == {<<0, 1>>, <<2, 2>>, <<0>>}
Batches == UNION {[1..k -> Instances] : k \in 0..MaxBatch}

---------------------------------------------------------------------------
(* The object in a sequence of calls: each call is one step *)

\* C45Classifier(): the defaults of __init__
Init ==
    /\ tree = NoneObj
    /\ attributes = NoneObj
    /\ data = NoneObj
    /\ weight = 1
    /\ max_depth = None
    /\ deep = 0
    /\ min_samples_split = 2
    /\ min_samples_leaf = 1
    /\ ret = [op |-> "__init__", arg |-> None, out |-> Return(None)]
    /\ calls = 0
    /\ args = NoneObj
    /\ stack = <<>>

Called(op, arg, out) ==
    /\ ret' = [op |-> op, arg |-> arg, out |-> out]
    /\ calls' = calls + 1
    /\ UNCHANGED <<args, stack>>

\* fit(data, label, weight) with __train: weight and attributes are assigned before the
\* build, tree after it and data last; an error of the build leaves tree and data
Fit(frame, w) ==
    LET params == Params(max_depth, min_samples_split, min_samples_leaf)
        built == make_tree(frame, w, params, deep)
    IN  /\ calls < MaxCalls
        /\ weight' = w
        /\ attributes' = [kind |-> "list", items |-> FeatureColumns(frame)]
        /\ deep' = built.deep
        /\ IF built.node.kind = "Raise"
           THEN /\ UNCHANGED <<tree, data>>
                /\ Called("fit", w, built.node)
           ELSE /\ tree' = built.node
                /\ data' = frame
                /\ Called("fit", w, ReturnDict(params))
        /\ UNCHANGED <<max_depth, min_samples_split, min_samples_leaf>>

\* set_params(max_depth=md)
SetParams(md) ==
    /\ calls < MaxCalls
    /\ max_depth' = md
    /\ Called("set_params", md, ReturnSelf)
    /\ UNCHANGED <<tree, attributes, data, weight, deep, min_samples_split,
                   min_samples_leaf>>

\* get_depth()
get_depth == deep

GetDepth ==
    /\ calls < MaxCalls
    /\ Called("get_depth", None, Return(get_depth))
    /\ UNCHANGED object

Predict(batch) ==
    /\ calls < MaxCalls
    /\ Called("predict", batch, predict(tree, attributes, data, batch))
    /\ UNCHANGED object

Rules ==
    /\ calls < MaxCalls
    /\ Called("rules", None, Return(rules(tree)))
    /\ UNCHANGED object

Summary ==
    /\ calls < MaxCalls
    /\ Called("summary", None, summary(tree, attributes, data))
    /\ UNCHANGED object

Next ==
    \/ \E frame \in FitFrames : Fit(frame, 1)
    \/ \E frame \in FitFrames, w \in Weights \ {1} : Fit(frame, w)
    \/ \E md \in DepthParams : SetParams(md)
    \/ GetDepth
    \/ \E batch \in Batches : Predict(batch)
    \/ Rules
    \/ Summary

Spec == Init /\ [][Next]_vars

---------------------------------------------------------------------------
(* One fit, step by step: every call of __build_decision_tree is an activation on the
   stack, and a step enters a call, starts the next recursive call of a loop, or
   returns a finished node to the caller *)

\* the training sets built step by step: one to three feature columns
BuildFrames ==
    {Frame(<<"a", "y">>, rows) : rows \in Rows(1, MaxRecords)}
    \cup {Frame(<<"a", "b", "y">>, rows) : rows \in Rows(2, MaxRecords)}
    \cup {Frame(<<"a", "b", "c", "y">>, rows) : rows \in Rows(3, MaxRecords)}

\* the arguments of __init__ tried: max_depth, min_samples_split, min_samples_leaf
BuildParams ==
    {Params(md, mss, msl) : md \in DepthParams, mss \in {2, 3}, msl \in {1, 3}}

\* an activation of __build_decision_tree(data, attributes, weights, depth): its
\* arguments, and once it has chosen an attribute the _DecisionNode it fills (tree), the
\* index chosen, the values its loop has still to visit and the value of the recursive
\* call it waits for
Activation(recs, attrs, weights, level) ==
    [data |-> recs, attributes |-> attrs, weights |-> weights, depth |-> level,
     tree |-> NoneObj, best_attribute |-> None, todo |-> <<>>, value |-> None]

Top == stack[Len(stack)]
Below == SubSeq(stack, 1, Len(stack) - 1)

\* tree.add_child(value, node) in the caller, which then goes on with its loop
AddChild(act, node) ==
    [act EXCEPT !.tree = Decision(act.tree.attribute,
                                  [v \in DOMAIN act.tree.children \cup {act.value} |->
                                      IF v = act.value THEN node
                                      ELSE act.tree.children[v]]),
                !.value = None]

\* a call returns node: to the calling activation, or from the outermost call to
\* __train, which assigns self.tree and self.data and lets fit return
ReturnNode(node) ==
    IF Len(stack) = 1
    THEN /\ tree' = node
         /\ data' = args.frame
         /\ stack' = <<>>
         /\ args' = [args EXCEPT !.pc = "done"]
         /\ ret' = [op |-> "fit", arg |-> args.weight,
                    out |-> ReturnDict(Params(max_depth, min_samples_split,
                                              min_samples_leaf))]
         /\ calls' = calls + 1
    ELSE /\ stack' = SubSeq(stack, 1, Len(stack) - 2)
                     \o <<AddChild(stack[Len(stack) - 1], node)>>
         /\ UNCHANGED <<tree, data, args, ret, calls>>

\* C45Classifier(max_depth, min_samples_split, min_samples_leaf)
InitBuild ==
    /\ tree = NoneObj
    /\ attributes = NoneObj
    /\ data = NoneObj
    /\ weight = 1
    /\ deep = 0
    /\ \E params \in BuildParams :
          /\ max_depth = params.max_depth
          /\ min_samples_split = params.min_samples_split
          /\ min_samples_leaf = params.min_samples_leaf
    /\ ret = [op |-> "__init__", arg |-> None, out |-> Return(None)]
    /\ calls = 0
    /\ args = [pc |-> "new", frame |-> NoneObj, weight |-> None]
    /\ stack = <<>>

\* fit(data, weight) enters __train, which runs up to the call of __make_tree
TrainBegin ==
    /\ args.pc = "new"
    /\ \E frame \in BuildFrames, w \in Weights :
          /\ weight' = w
          /\ attributes' = [kind |-> "list", items |-> FeatureColumns(frame)]
          /\ stack' = <<Activation(frame.rows, FeatureColumns(frame),
                                   [i \in 1..Len(frame.rows) |-> w], 0)>>
          /\ args' = [pc |-> "build", frame |-> frame, weight |-> w]
    /\ UNCHANGED <<tree, data, max_depth, deep, min_samples_split, min_samples_leaf,
                   ret, calls>>

\* the newest call runs up to its first recursive call: it returns a Leaf, or the
\* entropy raises and the error leaves every call and fit, or it creates its
\* _DecisionNode and updates self.deep
BuildEnter ==
    /\ args.pc = "build"
    /\ Top.tree = NoneObj
    /\ LET act == Top
           params == Params(max_depth, min_samples_split, min_samples_leaf)
           stop == StoppingLeaf(act.data, act.attributes, act.weights, act.depth, params)
       IN  IF stop # NoneObj
               THEN ReturnNode(stop) /\ UNCHANGED deep
           ELSE IF EntropyRaises(act.data, act.weights)
               THEN /\ stack' = <<>>
                    /\ args' = [args EXCEPT !.pc = "failed"]
                    /\ ret' = [op |-> "fit", arg |-> args.weight,
                               out |-> Raise("ZeroDivisionError")]
                    /\ calls' = calls + 1
                    /\ UNCHANGED <<tree, data, deep>>
           ELSE
           LET best_attribute ==
                   select_best_attribute_c50(act.data, act.attributes, act.weights)
           IN  IF best_attribute = None
               THEN /\ ReturnNode(Leaf(majority_class(act.data, act.weights),
                                       SumSeq(act.weights)))
                    /\ UNCHANGED deep
               ELSE /\ stack' = Below \o
                        <<[act EXCEPT
                            !.tree = Decision(act.attributes[best_attribute + 1],
                                              <<>>),
                            !.best_attribute = best_attribute,
                            !.todo = Ascending(AttributeValues(act.data,
                                                               best_attribute))]>>
                    /\ deep' = Max({deep, act.depth + 1})
                    /\ UNCHANGED <<tree, data, args, ret, calls>>
    /\ UNCHANGED <<attributes, weight, max_depth, min_samples_split, min_samples_leaf>>

\* the loop over attribute_values takes its next value: an empty subset becomes a Leaf
\* child at once, any other starts the recursive call
BuildDescend ==
    /\ args.pc = "build"
    /\ Top.tree # NoneObj
    /\ Top.todo # <<>>
    /\ LET act == Top
           value == Head(act.todo)
           sub == split_data(act.data, act.best_attribute, value, act.weights)
           waiting == [act EXCEPT !.todo = Tail(act.todo), !.value = value]
       IN  IF Len(sub.data) = 0
           THEN stack' = Below \o
                    <<AddChild(waiting, Leaf(majority_class(act.data, act.weights),
                                             SumSeq(sub.weights)))>>
           ELSE stack' = Below \o
                    <<waiting,
                      Activation(sub.data,
                                 ChildAttributes(act.attributes, act.best_attribute),
                                 sub.weights, act.depth + 1)>>
    /\ UNCHANGED <<object, ret, calls, args>>

\* the loop is over: return tree
BuildReturn ==
    /\ args.pc = "build"
    /\ Top.tree # NoneObj
    /\ Top.todo = <<>>
    /\ ReturnNode(Top.tree)
    /\ UNCHANGED <<attributes, weight, max_depth, deep, min_samples_split,
                   min_samples_leaf>>

\* self.tree.depth() on the tree of the fit, as summary() calls it
TreeDepth ==
    /\ args.pc = "done"
    /\ calls < MaxCalls
    /\ ret' = [op |-> "depth", arg |-> None, out |-> DepthCall(tree)]
    /\ calls' = calls + 1
    /\ UNCHANGED <<object, args, stack>>

NextBuild ==
    \/ TrainBegin
    \/ BuildEnter
    \/ BuildDescend
    \/ BuildReturn
    \/ TreeDepth

\* where the run is: every step of NextBuild changes it
position == <<args, stack, calls>>

\* no step of NextBuild is possible: fit raised, or it returned and the calls are used up
Halted == args.pc = "failed" \/ (args.pc = "done" /\ calls >= MaxCalls)

\* a running call goes on, Python runs fit to its end: WF_position(NextBuild), the
\* enabling condition of NextBuild written out as ~Halted
Fairness == []<>Halted \/ []<><<NextBuild>>_position

SpecBuild == InitBuild /\ [][NextBuild]_vars /\ Fairness

\* the step-by-step build and __build_decision_tree as one operator agree
BuildAgrees ==
    args.pc \in {"done", "failed"} =>
        LET whole == make_tree(args.frame, args.weight,
                               Params(max_depth, min_samples_split, min_samples_leaf), 0)
        IN  /\ deep = whole.deep
            /\ IF args.pc = "failed" THEN whole.node = ret.out /\ tree = NoneObj
               ELSE whole.node = tree

---------------------------------------------------------------------------
(* Notions the properties are stated with *)

Trained == tree # NoneObj

\* a node and every node below it
RECURSIVE Nodes(_)
Nodes(node) ==
    IF node.kind = "Decision"
    THEN {node} \cup UNION {Nodes(node.children[v]) : v \in DOMAIN node.children}
    ELSE {node}

\* the paths from a node to the Leaves below it, each the sequence of its edge values
RECURSIVE LeafPaths(_)
LeafPaths(node) ==
    IF node.kind = "Decision"
    THEN UNION {{<<v>> \o p : p \in LeafPaths(node.children[v])} :
                   v \in DOMAIN node.children}
    ELSE {<<>>}

\* the node a path of edge values leads to
RECURSIVE NodeAt(_, _)
NodeAt(node, path) ==
    IF path = <<>> THEN node ELSE NodeAt(node.children[Head(path)], Tail(path))

\* the number of Decision nodes on the longest path from a node to a Leaf: every edge of
\* a path leaves one Decision node
DecisionChain(node) == Max({Len(p) : p \in LeafPaths(node)})

DecisionChildren(node) ==
    {node.children[v] : v \in {x \in DOMAIN node.children :
                                  node.children[x].kind = "Decision"}}

Features(record) == SubSeq(record, 1, Len(record) - 1)

FitReturned == ret.op = "fit" /\ ret.out.kind = "Return"

---------------------------------------------------------------------------
(* C1 *)

\* C1: right after every fit that ran with max_depth configured to a number d,
\* get_depth() is at most d, whatever earlier fits on the same object reached.
C1_DepthWithinMaxDepth ==
    FitReturned /\ max_depth # None => get_depth <= max_depth

---------------------------------------------------------------------------
(* C2 *)

\* C2: on every tree of a successful fit, a root that is a single Leaf included,
\* tree.count_leaves() returns a number, and that number is len(rules()).
C2_LeavesEqualRules ==
    Trained => CountLeavesCall(tree) = Return(Len(rules(tree)))

---------------------------------------------------------------------------
(* C3 *)

\* C3: while no fit has succeeded, each of predict, rules and summary ends in the
\* 'untrained model' error, never in a result and never in another error.
C3_UntrainedError ==
    ~Trained /\ ret.op \in {"predict", "rules", "summary"}
        => ret.out = Raise(UntrainedError)

---------------------------------------------------------------------------
(* C4 *)

\* C4: on a trained classifier, predict ends in the 'arity mismatch' error whenever
\* any instance of the batch, at any position, has a field count other than the
\* trained attribute count.
C4_ArityOfEveryInstance ==
    /\ Trained
    /\ ret.op = "predict"
    /\ \E i \in 1..Len(ret.arg) : Len(ret.arg[i]) # Len(attributes.items)
    => ret.out = Raise(ArityError)

---------------------------------------------------------------------------
(* C5 *)

\* classification as C5 states it, over the columns of the training set of the tree:
\* along matching edges to a Leaf; where no edge matches, the maximum label of the
\* direct Leaf children, or without any the majority class of the whole training set,
\* each record of weight 1
RECURSIVE ClaimedLabel(_, _, _)
ClaimedLabel(node, frame, instance) ==
    IF node.kind = "Leaf" THEN node.label
    ELSE LET value == instance[IndexOf(FeatureColumns(frame), node.attribute) + 1]
         IN  IF value \in DOMAIN node.children
             THEN ClaimedLabel(node.children[value], frame, instance)
             ELSE IF DirectLeafLabels(node) # {}
                  THEN Max(DirectLeafLabels(node))
                  ELSE majority_class(frame.rows, [i \in 1..Len(frame.rows) |-> 1])

\* C5: on a trained tree every instance of the trained width is classified to a label,
\* never to an error: the label of the Leaf reached, the maximum label of the direct
\* Leaf children where no edge matches, else the majority class of the training set.
C5_ClassifiesEveryInstance ==
    /\ Trained
    /\ ret.op = "predict"
    /\ ret.arg # <<>>
    /\ \A i \in 1..Len(ret.arg) : Len(ret.arg[i]) = Len(FeatureColumns(data))
    => /\ ret.out.kind = "Return"
       /\ \A i \in 1..Len(ret.arg) :
             /\ ret.out.value[i] \in ClassLabels(data.rows)
             /\ ret.out.value[i] = ClaimedLabel(tree, data, ret.arg[i])

---------------------------------------------------------------------------
(* C6 *)

\* "<attribute> = <value>", character by character
Term(attribute, value) == <<attribute, " ", "=", " ", Str(value)>>

\* the rules as C6 states them: one per Leaf, a term for every edge of its path, the
\* attribute of the node the edge leaves with the edge's value, joined by " AND ", then
\* " => Class: <label>, Weight: <weight>"
RECURSIVE ClaimedRules(_, _)
ClaimedRules(node, conjunction) ==
    IF node.kind = "Leaf"
    THEN <<conjunction \o ClassSuffix(node.label, node.weight)>>
    ELSE LET values == Ascending(DOMAIN node.children)
         IN  Flatten([k \in 1..Len(values) |->
                ClaimedRules(node.children[values[k]],
                             IF conjunction = <<>>
                             THEN Term(node.attribute, values[k])
                             ELSE conjunction \o <<" ", "A", "N", "D", " ">>
                                  \o Term(node.attribute, values[k]))])

\* C6: rules() holds one rule per Leaf, whose conjunction has one 'attribute = value'
\* term for each edge of the path from the root, the last edge included, followed by
\* the class and weight of the Leaf.
C6_RulesFollowPaths ==
    Trained => rules(tree) = ClaimedRules(tree, <<>>)

---------------------------------------------------------------------------
(* C8 *)

\* every Decision node at or below node has a child, and its edge values are the
\* values its attribute takes among recs, the training records that reach it
RECURSIVE SplitsOnObservedValues(_, _, _)
SplitsOnObservedValues(node, recs, columns) ==
    node.kind = "Decision" =>
        LET index == IndexOf(columns, node.attribute)
        IN  /\ DOMAIN node.children # {}
            /\ index # None
            /\ DOMAIN node.children = {recs[i][index + 1] : i \in 1..Len(recs)}
            /\ \A v \in DOMAIN node.children :
                  SplitsOnObservedValues(node.children[v],
                      SelectSeq(recs, LAMBDA r : r[index + 1] = v), columns)

\* the Leaf a training record reaches along the edges of its own values
RECURSIVE OwnLeaf(_, _, _)
OwnLeaf(node, columns, record) ==
    IF node.kind = "Leaf" THEN node
    ELSE OwnLeaf(node.children[record[IndexOf(columns, node.attribute) + 1]],
                 columns, record)

\* C8: every Decision node of a fitted tree has a child and its edge values are the
\* values of its attribute among the training records that reached it; so classifying
\* a training record follows its own edges to a Leaf and never falls back.
C8_EdgesAreObservedValues ==
    Trained =>
        /\ SplitsOnObservedValues(tree, data.rows, FeatureColumns(data))
        /\ \A i \in 1..Len(data.rows) :
              LET found == ClassifyVia(tree, attributes, data, Features(data.rows[i]))
              IN  /\ found.via = "leaf"
                  /\ found.out = Return(OwnLeaf(tree, FeatureColumns(data),
                                                data.rows[i]).label)

---------------------------------------------------------------------------
(* C10 *)

\* C10: a fit that ends in an error leaves tree, attribute list, retained training
\* data and recorded depth as they were, so predict answers as before the call.
C10_FailedFitChangesNothing ==
    [][ret'.op = "fit" /\ ret'.out.kind = "Raise" /\ calls' = calls + 1
           => /\ tree' = tree
              /\ attributes' = attributes
              /\ data' = data
              /\ deep' = deep
              /\ \A batch \in Batches :
                    predict(tree', attributes', data', batch)
                        = predict(tree, attributes, data, batch)]_vars

---------------------------------------------------------------------------
(* C7 *)

\* C7: a Leaf has depth 1, a Decision node whose children are all Leaves has
\* depth 2, and any other Decision node has depth 1 plus the maximum depth() of its
\* Decision-typed children.
C7_DepthAsStated ==
    Trained =>
        \A node \in Nodes(tree) :
            DepthCall(node) =
                Return(IF node.kind = "Leaf" THEN 1
                       ELSE IF DecisionChildren(node) = {} THEN 2
                       ELSE 1 + Max({depth(child) : child \in DecisionChildren(node)}))

---------------------------------------------------------------------------
(* C9 *)

BuildEnded == args.pc \in {"done", "failed"}

\* C9: whatever max_depth, min_samples_split and min_samples_leaf are, the build ends
\* (fit returns or raises),
\* every recursive call receives an attribute list one shorter than its caller's, and
\* no path of the tree holds more Decision nodes than the training set has attributes.
C9_BuildTerminates ==
    /\ <>BuildEnded
    /\ [](\A i \in 2..Len(stack) :
             Len(stack[i].attributes) = Len(stack[i - 1].attributes) - 1)
    /\ [](args.pc = "done" => DecisionChain(tree) <= Len(FeatureColumns(args.frame)))

\* a build without max_depth ended with two Decision nodes on one path, its innermost
\* calls two levels below the first
C9_NestedBuildEnded ==
    /\ args.pc = "done"
    /\ max_depth = None
    /\ DecisionChain(tree) = 2

====
